---- MODULE Spec2Model ----
(***************************************************************************)
(* Threaded messaging backend (Django-signals_orm-0x04/messaging).         *)
(*                                                                         *)
(* The store holds the rows of Message, MessageHistory and Notification    *)
(* and the set of existing users.  Callers work on in-memory Message       *)
(* instances (the value returned by Message.objects.create or loaded by    *)
(* Message.objects.get / refresh_from_db); Model.save() writes an          *)
(* instance back, running the pre_save and post_save signal handlers of    *)
(* signals.py around the write.                                            *)
(***************************************************************************)
EXTENDS Integers, Sequences, FiniteSets, TLC

\* ---------------------------------------------------------------- bounds
NumUsers == 3       \* users
NumContents == 2    \* distinct content texts an edit may write
MaxMsgs == 3        \* messages ever created under Spec
MaxClock == 4       \* timestamps ever taken (creations and logged edits)
NumCopies == 2      \* callers holding an in-memory instance (SpecEdit, SpecConc)
MaxRaw == 2         \* characters of the content field posted to create_reply
EditMsgs == 1       \* messages ever created under SpecEdit and SpecConc
ThreadMsgs == 5     \* messages ever created under SpecThread
DeleteMsgs == 2     \* messages ever created under SpecDelete
AdminMsgs == 1      \* messages ever created under SpecAdmin

\* null of a nullable column (parent_message, last_edited_at, edited_by);
\* primary keys, users and timestamps are all >= 1.
None == 0

Users == 1..NumUsers
Contents == 1..NumContents
\* A new message's text: texts are only ever compared with the text the same
\* message holds, so one text for new messages loses nothing.
NewContents == {1}
Copies == 1..NumCopies
MsgIds == 1..MaxMsgs

VARIABLES
    users,      \* the existing User rows
    msgs,       \* Message table: message_id -> row
    hist,       \* MessageHistory table, in edited_at order (oldest first)
    notifs,     \* Notification table, in created_at order (oldest first)
    copies,     \* the in-memory Message instance each caller holds (or NoInstance)
    pc,         \* per caller: "idle", or "presaved" between pre_save and the write
    nextId,     \* the next fresh message_id (uuid4: never reused)
    clock,      \* timezone.now(), one tick per timestamp taken
    stored,     \* history variable: message_id -> the successive contents stored for it
    tx,         \* per caller: the open database transaction (or NoTx)
    cache,      \* the page cache of the views under cache_page
    last        \* history variable: the operation that produced this state

vars == <<users, msgs, hist, notifs, copies, pc, nextId, clock, stored,
          tx, cache, last>>

\* No transaction open: the caller's statements are committed one by one.
NoTx == [op |-> "none"]

\* The cache with no page in it: one entry per conversation_thread URL
\* (thread, by message_id) and per user for all_conversations (all).
NoPages == [thread |-> <<>>, all |-> <<>>]

NoInstance == [pk |-> None]

\* ------------------------------------------------------------ sequences
Front(s) == SubSeq(s, 1, Len(s) - 1)

\* ---------------------------------------------------------------- models
\* A Message row as stored (models.py Message fields; the key is message_id).
Message(sender, receiver, content, parent, now) ==
    [sender |-> sender, receiver |-> receiver, content |-> content,
     timestamp |-> now, edited |-> FALSE, last_edited_at |-> None,
     read |-> FALSE, parent_message |-> parent]

\* The in-memory instance of the row with key id.
Instance(id, row) ==
    [pk |-> id, sender |-> row.sender, receiver |-> row.receiver,
     content |-> row.content, timestamp |-> row.timestamp,
     edited |-> row.edited, last_edited_at |-> row.last_edited_at,
     read |-> row.read, parent_message |-> row.parent_message]

\* The row an instance writes with a full save (every non-key column).
RowOf(inst) ==
    [sender |-> inst.sender, receiver |-> inst.receiver,
     content |-> inst.content, timestamp |-> inst.timestamp,
     edited |-> inst.edited, last_edited_at |-> inst.last_edited_at,
     read |-> inst.read, parent_message |-> inst.parent_message]

MessageHistory(message, old_content, edited_by) ==
    [message |-> message, old_content |-> old_content, edited_by |-> edited_by]

Notification(user, message, notification_type, content) ==
    [user |-> user, message |-> message,
     notification_type |-> notification_type, content |-> content,
     is_read |-> FALSE]

\* ------------------------------------------------------------- signals.py
\* The f-strings of create_message_notification; username is the user's name.
NewMessageContent(sender) ==
    [template |-> "You have a new message from {sender}", sender |-> sender]
\* Mutant: a reply is announced with the template of a new message.
NewReplyContent_as_message(sender) == NewMessageContent(sender)
NewReplyContent(sender) ==
    [template |-> "You have a new reply from {sender}", sender |-> sender]
RepliedContent(sender) ==
    [template |-> "{sender} replied to your message", sender |-> sender]

\* Mutant: the new-message notification goes to the sender.
create_message_notification_to_sender(inst, created, rows) ==
    IF ~created THEN <<>>
    ELSE IF inst.parent_message # None
    THEN LET original_sender == rows[inst.parent_message].sender
         IN (IF original_sender # inst.receiver /\ original_sender # inst.sender
             THEN <<Notification(original_sender, inst.pk, "reply",
                                 RepliedContent(inst.sender))>>
             ELSE <<>>)
            \o <<Notification(inst.receiver, inst.pk, "reply",
                              NewReplyContent(inst.sender))>>
    ELSE <<Notification(inst.sender, inst.pk, "message",
                        NewMessageContent(inst.sender))>>

\* Mutant: the original sender is notified whenever it is not the receiver
\* (the test against the reply's own sender is missing).
create_message_notification_self_reply(inst, created, rows) ==
    IF ~created THEN <<>>
    ELSE IF inst.parent_message # None
    THEN LET original_sender == rows[inst.parent_message].sender
         IN (IF original_sender # inst.receiver
             THEN <<Notification(original_sender, inst.pk, "reply",
                                 RepliedContent(inst.sender))>>
             ELSE <<>>)
            \o <<Notification(inst.receiver, inst.pk, "reply",
                              NewReplyContent(inst.sender))>>
    ELSE <<Notification(inst.receiver, inst.pk, "message",
                        NewMessageContent(inst.sender))>>

\* Mutant: the handler does not look at created.
create_message_notification_every_save(inst, created, rows) ==
    IF inst.parent_message # None
    THEN LET original_sender == rows[inst.parent_message].sender
         IN (IF original_sender # inst.receiver /\ original_sender # inst.sender
             THEN <<Notification(original_sender, inst.pk, "reply",
                                 RepliedContent(inst.sender))>>
             ELSE <<>>)
            \o <<Notification(inst.receiver, inst.pk, "reply",
                              NewReplyContent(inst.sender))>>
    ELSE <<Notification(inst.receiver, inst.pk, "message",
                        NewMessageContent(inst.sender))>>

\* Mutant: when the original sender of the parent is notified of a reply, the
\* receiver of the reply is not.
create_message_notification_original_only(inst, created, rows) ==
    IF ~created THEN <<>>
    ELSE IF inst.parent_message # None
    THEN LET original_sender == rows[inst.parent_message].sender
         IN IF original_sender # inst.receiver /\ original_sender # inst.sender
            THEN <<Notification(original_sender, inst.pk, "reply",
                                RepliedContent(inst.sender))>>
            ELSE <<Notification(inst.receiver, inst.pk, "reply",
                                NewReplyContent(inst.sender))>>
    ELSE <<Notification(inst.receiver, inst.pk, "message",
                        NewMessageContent(inst.sender))>>

\* post_save handler: the Notification rows it creates, in creation order.
\* rows is the Message table (instance.parent_message is read from it).
create_message_notification(inst, created, rows) ==
    IF ~created THEN <<>>
    ELSE IF inst.parent_message # None
    THEN LET original_sender == rows[inst.parent_message].sender
         IN (IF original_sender # inst.receiver /\ original_sender # inst.sender
             THEN <<Notification(original_sender, inst.pk, "reply",
                                 RepliedContent(inst.sender))>>
             ELSE <<>>)
            \o <<Notification(inst.receiver, inst.pk, "reply",
                              NewReplyContent(inst.sender))>>
    ELSE <<Notification(inst.receiver, inst.pk, "message",
                        NewMessageContent(inst.sender))>>

\* Mutant: every save of an existing message is logged as an edit.
EditLoggedAlways(inst, rows) ==
    /\ inst.pk # None
    /\ inst.pk \in DOMAIN rows

\* pre_save handler: does this save log an edit?  (instance.pk is always set:
\* the uuid default is drawn when the instance is built; a missing row is
\* Message.DoesNotExist, which the handler swallows.)
EditLogged(inst, rows) ==
    /\ inst.pk # None
    /\ inst.pk \in DOMAIN rows
    /\ rows[inst.pk].content # inst.content

\* Mutant: the history row takes the content of the instance being saved.
log_message_edit_history_new_content(inst, rows) ==
    IF EditLogged(inst, rows)
    THEN <<MessageHistory(inst.pk, inst.content, inst.sender)>>
    ELSE <<>>

\* Mutant: the history row names the receiver as the editor.
log_message_edit_history_by_receiver(inst, rows) ==
    IF EditLogged(inst, rows)
    THEN <<MessageHistory(inst.pk, rows[inst.pk].content, inst.receiver)>>
    ELSE <<>>

\* pre_save handler: the MessageHistory rows it creates.
log_message_edit_history(inst, rows) ==
    IF EditLogged(inst, rows)
    THEN <<MessageHistory(inst.pk, rows[inst.pk].content, inst.sender)>>
    ELSE <<>>

\* pre_save handler: the instance as the handler leaves it.
log_message_edit_instance(inst, rows, now) ==
    IF EditLogged(inst, rows)
    THEN [inst EXCEPT !.edited = TRUE, !.last_edited_at = now]
    ELSE inst

\* ------------------------------------------------- the ORM (django.db.models)
\* Mutant: deleting a message leaves its replies in the store.
SubtreeNone(S, rows) == S

\* Mutant: the cascade stops at the direct replies.
SubtreeDirect(S, rows) ==
    S \cup {i \in DOMAIN rows : rows[i].parent_message \in S}

\* on_delete=CASCADE of Message.parent_message: the messages the delete
\* collector gathers from the set S (S and every transitive reply).
RECURSIVE Subtree(_, _)
Subtree(S, rows) ==
    LET T == S \cup {i \in DOMAIN rows : rows[i].parent_message \in S}
    IN IF T = S THEN S ELSE Subtree(T, rows)

Restrict(f, D) == [i \in D |-> f[i]]

SelectRows(s, P(_)) == SelectSeq(s, P)

\* The four tables as one value, for the operations that touch several.
Db == [users |-> users, msgs |-> msgs, hist |-> hist, notifs |-> notifs]

\* Mutant: MessageHistory.message does not cascade.
DeleteMessagesKeepHistory(db, S) ==
    LET D == Subtree(S \cap DOMAIN db.msgs, db.msgs)
        keepN(n) == n.message \notin D
    IN [db EXCEPT !.msgs = Restrict(db.msgs, DOMAIN db.msgs \ D),
                  !.notifs = SelectRows(db.notifs, keepN)]

\* Mutant: deleting messages leaves the notifications about them.
DeleteMessagesKeepNotifications(db, S) ==
    LET D == Subtree(S \cap DOMAIN db.msgs, db.msgs)
        keepH(h) == h.message \notin D
    IN [db EXCEPT !.msgs = Restrict(db.msgs, DOMAIN db.msgs \ D),
                  !.hist = SelectRows(db.hist, keepH)]

\* QuerySet.delete() / Model.delete() on the messages S: the rows go together
\* with everything that references them through a CASCADE foreign key
\* (replies, MessageHistory.message, Notification.message).
DeleteMessages(db, S) ==
    LET D == Subtree(S \cap DOMAIN db.msgs, db.msgs)
        keepH(h) == h.message \notin D
        keepN(n) == n.message \notin D
    IN [db EXCEPT !.msgs = Restrict(db.msgs, DOMAIN db.msgs \ D),
                  !.hist = SelectRows(db.hist, keepH),
                  !.notifs = SelectRows(db.notifs, keepN)]

\* Notification.objects.filter(user=u).delete()
DeleteNotificationsOf(db, u) ==
    LET keepN(n) == n.user # u
    IN [db EXCEPT !.notifs = SelectRows(db.notifs, keepN)]

\* Mutant: the editor of every history row is cleared, whoever it was.
ClearEditedByAll(db, u) ==
    [db EXCEPT !.hist = [i \in DOMAIN db.hist |->
        [db.hist[i] EXCEPT !.edited_by = None]]]

\* Mutant: the history rows edited by u are deleted instead of kept.
ClearEditedByDelete(db, u) ==
    LET keepH(h) == h.edited_by # u
    IN [db EXCEPT !.hist = SelectRows(db.hist, keepH)]

\* MessageHistory.objects.filter(edited_by=u).update(edited_by=None); also
\* on_delete=SET_NULL of MessageHistory.edited_by.
ClearEditedBy(db, u) ==
    [db EXCEPT !.hist = [i \in DOMAIN db.hist |->
        IF db.hist[i].edited_by = u
        THEN [db.hist[i] EXCEPT !.edited_by = None]
        ELSE db.hist[i]]]

\* post_delete handler of User (signals.py), its four statements in order.
delete_user_related_data(db, u) ==
    LET sent == {i \in DOMAIN db.msgs : db.msgs[i].sender = u}
        db1 == DeleteMessages(db, sent)
        received == {i \in DOMAIN db1.msgs : db1.msgs[i].receiver = u}
        db2 == DeleteMessages(db1, received)
        db3 == DeleteNotificationsOf(db2, u)
    IN ClearEditedBy(db3, u)

\* Mutant: the messages the user sent are not deleted with the user.
UserDelete_keeps_sent(db, u) ==
    LET owned == {i \in DOMAIN db.msgs : db.msgs[i].receiver = u}
        db1 == DeleteMessages(db, owned)
        db2 == DeleteNotificationsOf(db1, u)
        db3 == ClearEditedBy(db2, u)
    IN [db3 EXCEPT !.users = db.users \ {u}]

\* user.delete(): the collector follows the foreign keys of models.py
\* (Message.sender and .receiver CASCADE, Notification.user CASCADE,
\* MessageHistory.edited_by SET_NULL), removes the user, and post_delete
\* then runs the handler.
UserDelete(db, u) ==
    LET owned == {i \in DOMAIN db.msgs :
                    db.msgs[i].sender = u \/ db.msgs[i].receiver = u}
        db1 == DeleteMessages(db, owned)
        db2 == DeleteNotificationsOf(db1, u)
        db3 == ClearEditedBy(db2, u)
        db4 == [db3 EXCEPT !.users = db.users \ {u}]
    IN delete_user_related_data(db4, u)

\* The foreign keys of a Message row point at existing rows.
ForeignKeysOk(inst, rows, usrs) ==
    /\ inst.sender \in usrs
    /\ inst.receiver \in usrs
    /\ inst.parent_message # None => inst.parent_message \in DOMAIN rows

\* Model.save(), first half: the pre_save signal.  Yields the instance the
\* handler leaves, the history rows it wrote and whether it took a timestamp.
PreSave(inst, rows, now) ==
    [inst |-> log_message_edit_instance(inst, rows, now),
     rows |-> log_message_edit_history(inst, rows),
     logged |-> EditLogged(inst, rows)]

\* Model.save(), second half: UPDATE the row by key; when no row has the key,
\* INSERT it (timestamp is auto_now_add) unless a foreign key dangles.
\* outcome: "updated", "created" or "error".
SaveTable(inst, rows, usrs, now) ==
    IF inst.pk \in DOMAIN rows
    THEN [outcome |-> "updated", inst |-> inst,
          msgs |-> [rows EXCEPT ![inst.pk] = RowOf(inst)]]
    ELSE IF ForeignKeysOk(inst, rows, usrs)
    THEN LET added == [inst EXCEPT !.timestamp = now]
         IN [outcome |-> "created", inst |-> added,
             msgs |-> [i \in DOMAIN rows \cup {inst.pk} |->
                         IF i = inst.pk THEN RowOf(added) ELSE rows[i]]]
    ELSE [outcome |-> "error", inst |-> inst, msgs |-> rows]

\* Model.save(update_fields=['read']): UPDATE of the one column; no row with
\* the key is a DatabaseError.
SaveReadOnly(inst, rows) ==
    IF inst.pk \in DOMAIN rows
    THEN [outcome |-> "updated",
          msgs |-> [rows EXCEPT ![inst.pk].read = inst.read]]
    ELSE [outcome |-> "error", msgs |-> rows]

\* The successive stored contents of each existing message (history variable).
StoredAfter(old, new) ==
    [i \in DOMAIN new |->
        IF i \notin DOMAIN old THEN <<new[i].content>>
        ELSE IF new[i].content # old[i].content
        THEN Append(stored[i], new[i].content)
        ELSE stored[i]]

\* The operation that produced a state: its name, the message or user it was
\* called on, the caller and its result; for a delete, ret is the number of
\* Message rows removed and depth the length of the longest reply chain
\* removed with them.
Op(op, id, k, ret) ==
    [op |-> op, id |-> id, k |-> k, ret |-> ret, depth |-> 0]

RECURSIVE Level(_, _, _)
Level(i, D, rows) ==
    IF rows[i].parent_message \in D \ {i}
    THEN 1 + Level(rows[i].parent_message, D \ {i}, rows)
    ELSE 0

Deleted(op, id, old, new) ==
    LET D == DOMAIN old \ DOMAIN new
        levels == {Level(i, D, old) : i \in D}
    IN [Op(op, id, None, Cardinality(D)) EXCEPT
          !.depth = IF D = {} THEN 0
                    ELSE CHOOSE d \in levels : \A e \in levels : e <= d]

\* ------------------------------------------------- models.py: thread queries
\* order_by('timestamp') over the messages S: oldest first.  Rows with equal
\* timestamps come in key order (the database leaves their order open; every
\* creation here takes its own timestamp).
RECURSIVE OrderByTimestamp(_, _)
OrderByTimestamp(S, rows) ==
    IF S = {} THEN <<>>
    ELSE LET first == CHOOSE i \in S : \A j \in S :
                         \/ rows[i].timestamp < rows[j].timestamp
                         \/ rows[i].timestamp = rows[j].timestamp /\ i <= j
         IN <<first>> \o OrderByTimestamp(S \ {first}, rows)

\* Meta.ordering = ['-timestamp'], the order of a queryset without order_by:
\* newest first.
RECURSIVE OrderByTimestampDesc(_, _)
OrderByTimestampDesc(S, rows) ==
    IF S = {} THEN <<>>
    ELSE LET first == CHOOSE i \in S : \A j \in S :
                         \/ rows[i].timestamp > rows[j].timestamp
                         \/ rows[i].timestamp = rows[j].timestamp /\ i <= j
         IN <<first>> \o OrderByTimestampDesc(S \ {first}, rows)

\* message.replies: the rows whose parent_message is m.
Replies(m, rows) == {i \in DOMAIN rows : rows[i].parent_message = m}

\* The loop of get_thread_root from message i, seen being the messages it has
\* already stood on.  The loop reads nothing but the parent links, so when it
\* comes back to a message it has stood on it repeats the same steps forever:
\* returns = FALSE stands for the call that never returns.
RECURSIVE ThreadRootWalk(_, _, _)
ThreadRootWalk(i, seen, rows) ==
    IF rows[i].parent_message = None
    THEN [returns |-> TRUE, message |-> i]
    ELSE IF rows[i].parent_message \in seen
    THEN [returns |-> FALSE, message |-> None]
    ELSE ThreadRootWalk(rows[i].parent_message,
                        seen \cup {rows[i].parent_message}, rows)

\* Mutant: the walk stops one parent link above the message.
get_thread_root_one_link(m, rows) ==
    [returns |-> TRUE,
     message |-> IF rows[m].parent_message = None
                 THEN m ELSE rows[m].parent_message]

get_thread_root(m, rows) == ThreadRootWalk(m, {m}, rows)

\* The message n parent links above i (None when the chain ends before):
\* the join of parent_message__parent_message...
RECURSIVE Ancestor(_, _, _)
Ancestor(i, n, rows) ==
    IF n = 0 \/ i = None THEN i
    ELSE Ancestor(rows[i].parent_message, n - 1, rows)

\* Mutant: the thread comes in the default order of the model (newest first).
get_thread_messages_default_order(m, rows) ==
    LET root == get_thread_root(m, rows).message
    IN OrderByTimestampDesc(
          {i \in DOMAIN rows :
              \/ i = root
              \/ Ancestor(i, 1, rows) = root
              \/ Ancestor(i, 2, rows) = root
              \/ Ancestor(i, 3, rows) = root}, rows)

\* Message.get_thread_messages: the keys of the rows the filter selects, in
\* the order of the queryset.
get_thread_messages(m, rows) ==
    LET root == get_thread_root(m, rows).message
    IN OrderByTimestamp(
          {i \in DOMAIN rows :
              \/ i = root
              \/ Ancestor(i, 1, rows) = root
              \/ Ancestor(i, 2, rows) = root
              \/ Ancestor(i, 3, rows) = root}, rows)

\* Message.get_conversation_participants: the users of the Python set the
\* loop fills (the list made of it holds each once, in no particular order).
get_conversation_participants(m, rows) ==
    LET root == get_thread_root(m, rows).message
        thread_messages == get_thread_messages(root, rows)
    IN {rows[thread_messages[i]].sender : i \in DOMAIN thread_messages}
       \cup {rows[thread_messages[i]].receiver : i \in DOMAIN thread_messages}

\* Mutant: the replies query follows the replies of the replies too.
get_all_replies_nested(m, rows) ==
    OrderByTimestampDesc(Subtree({m}, rows) \ {m}, rows)

\* Message.get_all_replies: filter(parent_message=self), in Meta.ordering.
get_all_replies(m, rows) == OrderByTimestampDesc(Replies(m, rows), rows)

get_reply_count(m, rows) == Cardinality(Replies(m, rows))

\* Mutant: only the direct replies are counted.
get_total_reply_count_direct(m, rows) == get_reply_count(m, rows)

\* Message.get_total_reply_count; TotalOver is its for loop over
\* self.replies.all().
RECURSIVE get_total_reply_count(_, _), TotalOver(_, _)
TotalOver(replies, rows) ==
    IF replies = <<>> THEN 0
    ELSE get_total_reply_count(Head(replies), rows) + TotalOver(Tail(replies), rows)

get_total_reply_count(m, rows) ==
    get_reply_count(m, rows)
    + TotalOver(OrderByTimestampDesc(Replies(m, rows), rows), rows)

\* Mutant: the replies of a node come in the default order (newest first).
RECURSIVE build_tree_default_order(_, _)
build_tree_default_order(message, rows) ==
    LET replies == OrderByTimestampDesc(Replies(message, rows), rows)
    IN [message |-> message,
        replies |-> [i \in DOMAIN replies |->
                        build_tree_default_order(replies[i], rows)]]

\* Message.get_conversation_tree: build_tree, the dictionary as a record.
RECURSIVE build_tree(_, _)
build_tree(message, rows) ==
    LET replies == OrderByTimestamp(Replies(message, rows), rows)
    IN [message |-> message,
        replies |-> [i \in DOMAIN replies |-> build_tree(replies[i], rows)]]

get_conversation_tree(root_message, rows) == build_tree(root_message, rows)

\* -------------------------------------------- managers.py: Message.unread
\* Mutant: the messages that u sent count for u as well.
unread_for_user_sent_too(u, rows) ==
    OrderByTimestampDesc(
        {i \in DOMAIN rows :
            (rows[i].receiver = u \/ rows[i].sender = u) /\ ~rows[i].read}, rows)

\* UnreadMessagesManager.unread_for_user: the keys of the rows of the
\* queryset, in its order (order_by('-timestamp')).
unread_for_user(u, rows) ==
    OrderByTimestampDesc(
        {i \in DOMAIN rows : rows[i].receiver = u /\ ~rows[i].read}, rows)

unread_count_for_user(u, rows) ==
    Cardinality({i \in DOMAIN rows : rows[i].receiver = u /\ ~rows[i].read})

unread_by_sender(u, sender, rows) ==
    OrderByTimestampDesc(
        {i \in DOMAIN rows :
            rows[i].receiver = u /\ rows[i].sender = sender /\ ~rows[i].read},
        rows)

\* Mutant: the filter on the parent is missing.
unread_threads_for_user_replies_too(u, rows) ==
    OrderByTimestampDesc(
        {i \in DOMAIN rows : rows[i].receiver = u /\ ~rows[i].read}, rows)

unread_threads_for_user(u, rows) ==
    OrderByTimestampDesc(
        {i \in DOMAIN rows :
            /\ rows[i].receiver = u
            /\ ~rows[i].read
            /\ rows[i].parent_message = None}, rows)

\* ---------------------------------------------------------------- views.py
\* The response of conversation_thread for message m, from the rows as they
\* are: the message asked for, the tree of its thread and the content of each
\* message of the tree as the template gets them in its context.
conversation_thread_page(m, rows) ==
    LET root_message == get_thread_root(m, rows).message
    IN [status |-> 200,
        current_message |-> m,
        conversation_tree |-> get_conversation_tree(root_message, rows),
        content |-> [i \in Subtree({root_message}, rows) |-> rows[i].content]]

\* The response of all_conversations for user u: the parentless messages that
\* u sent or received, newest first, with their prefetched replies.
all_conversations_page(u, rows) ==
    LET roots == {i \in DOMAIN rows :
                    /\ rows[i].sender = u \/ rows[i].receiver = u
                    /\ rows[i].parent_message = None}
        shown == roots \cup {i \in DOMAIN rows : rows[i].parent_message \in roots}
    IN [status |-> 200,
        root_messages |-> OrderByTimestampDesc(roots, rows),
        content |-> [i \in shown |-> rows[i].content]]

\* get_object_or_404 found no row.
NotFound == [status |-> 404]

\* str.strip(): the text without its leading and trailing whitespace.
RECURSIVE lstrip(_)
lstrip(s) == IF s # <<>> /\ Head(s) = " " THEN lstrip(Tail(s)) ELSE s

RECURSIVE rstrip(_)
rstrip(s) == IF s # <<>> /\ s[Len(s)] = " " THEN rstrip(Front(s)) ELSE s

strip(s) == rstrip(lstrip(s))

\* Mutant: a missing parent makes the reply a parentless message to oneself.
create_reply_view_orphan(user, method, parent_message_id, raw, rows) ==
    IF method = "POST"
    THEN LET content == strip(raw)
         IN IF content # <<>>
            THEN [status |-> 302,
                  create |-> <<[sender |-> user,
                                receiver |-> IF parent_message_id \in DOMAIN rows
                                             THEN rows[parent_message_id].sender
                                             ELSE user,
                                content |-> content,
                                parent_message |->
                                    IF parent_message_id \in DOMAIN rows
                                    THEN parent_message_id ELSE None]>>]
            ELSE [status |-> 302, create |-> <<>>]
    ELSE [status |-> 302, create |-> <<>>]

\* Mutant: the reply goes to the receiver of the parent.
create_reply_view_to_receiver(user, method, parent_message_id, raw, rows) ==
    IF method = "POST"
    THEN IF parent_message_id \notin DOMAIN rows
         THEN [status |-> NotFound.status, create |-> <<>>]
         ELSE LET content == strip(raw)
              IN IF content # <<>>
                 THEN [status |-> 302,
                       create |-> <<[sender |-> user,
                                     receiver |-> rows[parent_message_id].receiver,
                                     content |-> content,
                                     parent_message |-> parent_message_id]>>]
                 ELSE [status |-> 302, create |-> <<>>]
    ELSE [status |-> 302, create |-> <<>>]

\* create_reply: the status of the response and the arguments of the
\* Message.objects.create it calls, if it calls it.
create_reply_view(user, method, parent_message_id, raw, rows) ==
    IF method = "POST"
    THEN IF parent_message_id \notin DOMAIN rows
         THEN [status |-> NotFound.status, create |-> <<>>]
         ELSE LET content == strip(raw)
              IN IF content # <<>>
                 THEN [status |-> 302,
                       create |-> <<[sender |-> user,
                                     receiver |-> rows[parent_message_id].sender,
                                     content |-> content,
                                     parent_message |-> parent_message_id]>>]
                 ELSE [status |-> 302, create |-> <<>>]
    ELSE [status |-> 302, create |-> <<>>]

\* The confirmation word of delete_user.
Delete == <<"d", "e", "l", "e", "t", "e">>

\* str.lower() on the letters the posted confirmations are written with.
lower_char(c) ==
    CASE c = "D" -> "d"
      [] c = "E" -> "e"
      [] c = "L" -> "l"
      [] c = "T" -> "t"
      [] OTHER -> c

lower(s) == [i \in DOMAIN s |-> lower_char(s[i])]

\* Mutant: the confirmation is compared as posted.
delete_user_view_case_sensitive(confirmation) ==
    IF confirmation = Delete
    THEN [delete |-> TRUE, redirect |-> "account_deleted"]
    ELSE [delete |-> FALSE, redirect |-> "delete_user_account"]

\* delete_user: whether it calls user.delete(), and where it redirects.
delete_user_view(confirmation) ==
    IF lower(confirmation) = Delete
    THEN [delete |-> TRUE, redirect |-> "account_deleted"]
    ELSE [delete |-> FALSE, redirect |-> "delete_user_account"]

\* ------------------------------------------------------------------ Init
Init ==
    /\ users = Users
    /\ msgs = <<>>
    /\ hist = <<>>
    /\ notifs = <<>>
    /\ copies = [k \in Copies |-> NoInstance]
    /\ pc = [k \in Copies |-> "idle"]
    /\ nextId = 1
    /\ clock = 1
    /\ stored = <<>>
    /\ tx = [k \in Copies |-> NoTx]
    /\ cache = NoPages
    /\ last = Op("init", None, None, 0)

\* --------------------------------------------------------------- actions
\* Model.save() of instance inst, both halves and the post_save signal, as
\* one step: the tables, the instance and the clock it leaves.
\* ret: 0 saved without a content change, 1 saved and logged an edit,
\*      2 inserted the row, 3 failed.
FullSave(inst) ==
    LET pre == PreSave(inst, msgs, clock)
        now == IF pre.logged THEN clock + 1 ELSE clock
        res == SaveTable(pre.inst, msgs, users, now)
    IN [msgs |-> res.msgs,
        hist |-> hist \o pre.rows,
        notifs |-> notifs \o create_message_notification(
                                res.inst, res.outcome = "created", msgs),
        inst |-> res.inst,
        clock |-> IF res.outcome = "created" THEN now + 1 ELSE now,
        ret |-> IF res.outcome = "error" THEN 3
                ELSE IF res.outcome = "created" THEN 2
                ELSE IF pre.logged THEN 1 ELSE 0]

\* Message.objects.create(sender=s, receiver=r, content=c, parent_message=p)
CreateMessage(s, r, c, p) ==
    LET sv == FullSave(Instance(nextId, Message(s, r, c, p, clock)))
    IN /\ sv.ret = 2
       /\ msgs' = sv.msgs
       /\ hist' = sv.hist
       /\ notifs' = sv.notifs
       /\ nextId' = nextId + 1
       /\ clock' = sv.clock
       /\ stored' = StoredAfter(msgs, sv.msgs)
       /\ last' = Op("create", nextId, None, sv.ret)
       /\ UNCHANGED <<tx, cache, users, copies, pc>>

\* m = Message.objects.get(pk=m); m.content = c; m.save()
EditMessage(m, c) ==
    /\ m \in DOMAIN msgs
    /\ LET sv == FullSave([Instance(m, msgs[m]) EXCEPT !.content = c])
       IN /\ sv.clock > clock => clock <= MaxClock
          /\ msgs' = sv.msgs
          /\ hist' = sv.hist
          /\ notifs' = sv.notifs
          /\ clock' = sv.clock
          /\ stored' = StoredAfter(msgs, sv.msgs)
          /\ last' = Op("edit", m, None, sv.ret)
    /\ UNCHANGED <<tx, cache, users, copies, pc, nextId>>

\* Caller k loads message m: Message.objects.get(pk=m) / refresh_from_db().
Load(k, m) ==
    /\ pc[k] = "idle"
    /\ m \in DOMAIN msgs
    /\ copies' = [copies EXCEPT ![k] = Instance(m, msgs[m])]
    /\ last' = Op("load", m, k, 0)
    /\ UNCHANGED <<tx, cache, users, msgs, hist, notifs, pc, nextId, clock, stored>>

\* Caller k, on the instance it holds: instance.content = c; instance.save()
\* (c may be the content the instance already has: a plain save).
Save(k, c) ==
    /\ pc[k] = "idle"
    /\ copies[k] # NoInstance
    /\ LET sv == FullSave([copies[k] EXCEPT !.content = c])
       IN /\ sv.clock > clock => clock <= MaxClock
          /\ msgs' = sv.msgs
          /\ hist' = sv.hist
          /\ notifs' = sv.notifs
          /\ copies' = [copies EXCEPT ![k] = sv.inst]
          /\ clock' = sv.clock
          /\ stored' = StoredAfter(msgs, sv.msgs)
          /\ last' = Op("save", copies[k].pk, k, sv.ret)
    /\ UNCHANGED <<tx, cache, users, pc, nextId>>

\* Model.save() of caller k as two steps, for callers that run concurrently:
\* the pre_save signal (which reads the stored row and writes the history row)
\* and, later, the write of the row with the post_save signal.  Nothing in the
\* code locks the row or joins the two in one transaction.
SavePre(k, c) ==
    /\ pc[k] = "idle"
    /\ copies[k] # NoInstance
    /\ LET pre == PreSave([copies[k] EXCEPT !.content = c], msgs, clock)
       IN /\ pre.logged => clock <= MaxClock
          /\ hist' = hist \o pre.rows
          /\ copies' = [copies EXCEPT ![k] = pre.inst]
          /\ clock' = IF pre.logged THEN clock + 1 ELSE clock
          /\ last' = Op("pre_save", copies[k].pk, k, IF pre.logged THEN 1 ELSE 0)
    /\ pc' = [pc EXCEPT ![k] = "presaved"]
    /\ UNCHANGED <<tx, cache, users, msgs, notifs, nextId, stored>>

SaveWrite(k) ==
    /\ pc[k] = "presaved"
    /\ LET res == SaveTable(copies[k], msgs, users, clock)
       IN /\ res.outcome = "created" => clock <= MaxClock
          /\ \A i \in DOMAIN msgs :
                res.msgs[i].content # msgs[i].content => Len(stored[i]) < MaxClock
          /\ msgs' = res.msgs
          /\ notifs' = notifs \o create_message_notification(
                                    res.inst, res.outcome = "created", msgs)
          /\ copies' = [copies EXCEPT ![k] = res.inst]
          /\ clock' = IF res.outcome = "created" THEN clock + 1 ELSE clock
          /\ stored' = StoredAfter(msgs, res.msgs)
          /\ last' = Op("write", copies[k].pk, k,
                        IF res.outcome = "error" THEN 3
                        ELSE IF res.outcome = "created" THEN 2
                        ELSE IF msgs[copies[k].pk].content # copies[k].content
                        THEN 1 ELSE 0)
    /\ pc' = [pc EXCEPT ![k] = "idle"]
    /\ UNCHANGED <<tx, cache, users, hist, nextId>>

\* The write of caller k's save raises (a database error) after pre_save has
\* run: save() fails (ret = 3).  The history row that log_message_edit
\* created was committed on its own and stays.
SaveFail(k) ==
    /\ pc[k] = "presaved"
    /\ pc' = [pc EXCEPT ![k] = "idle"]
    /\ last' = Op("write", copies[k].pk, k, 3)
    /\ UNCHANGED <<tx, cache, users, msgs, hist, notifs, copies, nextId,
                   clock, stored>>

\* Message.objects.create(...) of caller k as the steps the database sees.
\* Nothing in models.py, signals.py or views.py opens a transaction, so each
\* INSERT is committed on its own: first the Message row (pre_save finds no
\* row and does nothing), then, in the post_save handler, each Notification.
CreateInsert(k, s, r, c, p) ==
    /\ pc[k] = "idle"
    /\ LET pre == PreSave(Instance(nextId, Message(s, r, c, p, clock)), msgs, clock)
           res == SaveTable(pre.inst, msgs, users, clock)
       IN /\ res.outcome = "created"
          /\ msgs' = res.msgs
          /\ copies' = [copies EXCEPT ![k] = res.inst]
          /\ stored' = StoredAfter(msgs, res.msgs)
    /\ pc' = [pc EXCEPT ![k] = "post_save"]
    /\ nextId' = nextId + 1
    /\ clock' = clock + 1
    /\ last' = Op("insert", nextId, k, 2)
    /\ UNCHANGED <<tx, cache, users, hist, notifs>>

\* The next Notification.objects.create of the handler running for caller k.
NotifyWrite(k) ==
    /\ pc[k] \in {"post_save", "post_save_2"}
    /\ LET rows == create_message_notification(copies[k], TRUE, msgs)
           n == IF pc[k] = "post_save" THEN 1 ELSE 2
       IN /\ notifs' = Append(notifs, rows[n])
          /\ pc' = [pc EXCEPT ![k] = IF n < Len(rows) THEN "post_save_2" ELSE "idle"]
          /\ last' = Op(IF n < Len(rows) THEN "notify" ELSE "create",
                        copies[k].pk, k, 2)
    /\ UNCHANGED <<tx, cache, users, msgs, hist, copies, nextId, clock, stored>>

\* The next Notification.objects.create raises (a database error): the
\* exception leaves the handler and save(), and create() fails (ret = 3).
NotifyFail(k) ==
    /\ pc[k] \in {"post_save", "post_save_2"}
    /\ pc' = [pc EXCEPT ![k] = "idle"]
    /\ last' = Op("create", copies[k].pk, k, 3)
    /\ UNCHANGED <<tx, cache, users, msgs, hist, notifs, copies, nextId, clock, stored>>

\* Model.delete() as the steps the database sees.  The collector gathers the
\* rows to delete (doomed: the messages, with their replies at any depth)
\* and then runs its statements inside one transaction: the deletes of the
\* Notification and MessageHistory rows, the update of edited_by, the delete
\* of the Message rows and, for a user, of the User row, followed by the
\* four statements of the post_delete handler delete_user_related_data.
TxStatements(t) == IF t.op = "delete_message" THEN 3 ELSE 9

\* The tables of transaction t after its next statement.
TxStatement(t) ==
    LET db == t.work
        n == t.step + 1
        u == t.id
        keepN(x) == x.message \notin t.doomed /\ (t.op = "delete_user" => x.user # u)
        keepH(h) == h.message \notin t.doomed
        sent == {i \in DOMAIN db.msgs : db.msgs[i].sender = u}
        received == {i \in DOMAIN db.msgs : db.msgs[i].receiver = u}
    IN IF n = 1 THEN [db EXCEPT !.notifs = SelectRows(db.notifs, keepN)]
       ELSE IF n = 2 THEN [db EXCEPT !.hist = SelectRows(db.hist, keepH)]
       ELSE IF t.op = "delete_message" \/ n = 4
       THEN [db EXCEPT !.msgs = Restrict(db.msgs, DOMAIN db.msgs \ t.doomed)]
       ELSE IF n = 3 THEN ClearEditedBy(db, u)
       ELSE IF n = 5 THEN [db EXCEPT !.users = db.users \ {u}]
       ELSE IF n = 6 THEN DeleteMessages(db, sent)
       ELSE IF n = 7 THEN DeleteMessages(db, received)
       ELSE IF n = 8 THEN DeleteNotificationsOf(db, u)
       ELSE ClearEditedBy(db, u)

\* Mutant: no transaction; every statement is committed when it is run.
TxApplyAutocommit(t, db) ==
    [store |-> TxStatement(t), work |-> TxStatement(t)]

\* A statement inside the transaction (Collector.delete runs under
\* transaction.atomic): it changes the tables the transaction works on, and
\* the store that other callers read stays as committed.
TxApply(t, db) ==
    [store |-> db, work |-> TxStatement(t)]

\* The database takes one writer at a time.
NoWriter == \A k \in Copies : tx[k] = NoTx

\* Caller k starts message.delete() (op = "delete_message", id a message) or
\* user.delete() (op = "delete_user", id a user).
DeleteBegin(k, op, id) ==
    /\ pc[k] = "idle"
    /\ NoWriter
    /\ op \in {"delete_message", "delete_user"}
    /\ IF op = "delete_message" THEN id \in DOMAIN msgs ELSE id \in users
    /\ LET owned == IF op = "delete_message" THEN {id}
                    ELSE {i \in DOMAIN msgs :
                            msgs[i].sender = id \/ msgs[i].receiver = id}
       IN tx' = [tx EXCEPT ![k] = [op |-> op, id |-> id, step |-> 0,
                                   doomed |-> Subtree(owned, msgs),
                                   work |-> Db]]
    /\ pc' = [pc EXCEPT ![k] = "deleting"]
    /\ last' = Op("begin", id, k, 0)
    /\ UNCHANGED <<cache, users, msgs, hist, notifs, copies, nextId, clock,
                   stored>>

\* The next statement of caller k's delete.
DeleteStatement(k) ==
    /\ pc[k] = "deleting"
    /\ tx[k].step < TxStatements(tx[k])
    /\ LET res == TxApply(tx[k], Db)
       IN /\ users' = res.store.users
          /\ msgs' = res.store.msgs
          /\ hist' = res.store.hist
          /\ notifs' = res.store.notifs
          /\ stored' = Restrict(stored, DOMAIN res.store.msgs)
          /\ tx' = [tx EXCEPT ![k].work = res.work, ![k].step = tx[k].step + 1]
    /\ last' = Op("statement", tx[k].id, k, tx[k].step + 1)
    /\ UNCHANGED <<cache, copies, pc, nextId, clock>>

\* The transaction of caller k's delete commits: delete() returns.
DeleteCommit(k) ==
    /\ pc[k] = "deleting"
    /\ tx[k].step = TxStatements(tx[k])
    /\ users' = tx[k].work.users
    /\ msgs' = tx[k].work.msgs
    /\ hist' = tx[k].work.hist
    /\ notifs' = tx[k].work.notifs
    /\ stored' = Restrict(stored, DOMAIN tx[k].work.msgs)
    /\ tx' = [tx EXCEPT ![k] = NoTx]
    /\ pc' = [pc EXCEPT ![k] = "idle"]
    /\ last' = [Deleted(tx[k].op, tx[k].id, msgs, msgs') EXCEPT !.k = k]
    /\ UNCHANGED <<cache, copies, nextId, clock>>

\* A statement of caller k's delete raises, or the caller dies: the
\* transaction is rolled back and delete() fails (ret = 3).
DeleteFail(k) ==
    /\ pc[k] = "deleting"
    /\ tx' = [tx EXCEPT ![k] = NoTx]
    /\ pc' = [pc EXCEPT ![k] = "idle"]
    /\ last' = Op("delete_failed", tx[k].id, k, 3)
    /\ UNCHANGED <<cache, users, msgs, hist, notifs, copies, nextId, clock,
                   stored>>

\* GET of conversation_thread for message m, under cache_page(60): a response
\* in the cache is served as it is; otherwise the view runs, and its response
\* is put in the cache when it is a page (status 200).
ViewThread(m) ==
    /\ LET page == IF m \in DOMAIN cache.thread THEN cache.thread[m]
                   ELSE IF m \in DOMAIN msgs
                   THEN conversation_thread_page(m, msgs)
                   ELSE NotFound
       IN /\ cache' = IF page.status = 200 /\ m \notin DOMAIN cache.thread
                      THEN [cache EXCEPT !.thread =
                              [i \in DOMAIN cache.thread \cup {m} |->
                                  IF i = m THEN page ELSE cache.thread[i]]]
                      ELSE cache
          /\ last' = [Op("conversation_thread", m, None, 0) EXCEPT !.ret = page]
    /\ UNCHANGED <<tx, users, msgs, hist, notifs, copies, pc, nextId, clock,
                   stored>>

\* GET of all_conversations by user u, under cache_page(60).
ViewAll(u) ==
    /\ u \in users
    /\ LET page == IF u \in DOMAIN cache.all THEN cache.all[u]
                   ELSE all_conversations_page(u, msgs)
       IN /\ cache' = IF u \notin DOMAIN cache.all
                      THEN [cache EXCEPT !.all =
                              [i \in DOMAIN cache.all \cup {u} |->
                                  IF i = u THEN page ELSE cache.all[i]]]
                      ELSE cache
          /\ last' = [Op("all_conversations", u, None, 0) EXCEPT !.ret = page]
    /\ UNCHANGED <<tx, users, msgs, hist, notifs, copies, pc, nextId, clock,
                   stored>>

\* The 60 seconds of a cached response are over: the entry is dropped.
CacheExpire ==
    /\ \/ \E m \in DOMAIN cache.thread :
             cache' = [cache EXCEPT !.thread =
                         Restrict(cache.thread, DOMAIN cache.thread \ {m})]
       \/ \E u \in DOMAIN cache.all :
             cache' = [cache EXCEPT !.all =
                         Restrict(cache.all, DOMAIN cache.all \ {u})]
    /\ last' = Op("expire", None, None, 0)
    /\ UNCHANGED <<tx, users, msgs, hist, notifs, copies, pc, nextId, clock,
                   stored>>

\* Caller k: instance.mark_as_read() (value = TRUE) or
\* instance.mark_as_unread() (value = FALSE).
\* ret: 0 the instance already had the value (nothing is saved),
\*      1 saved, 3 failed.
MarkRead(k, value) ==
    /\ pc[k] = "idle"
    /\ copies[k] # NoInstance
    /\ IF copies[k].read = value
       THEN /\ last' = Op(IF value THEN "mark_as_read" ELSE "mark_as_unread",
                          copies[k].pk, k, 0)
            /\ UNCHANGED <<msgs, hist, copies, clock, stored>>
       ELSE LET inst == [copies[k] EXCEPT !.read = value]
                pre == PreSave(inst, msgs, clock)
                res == SaveReadOnly(pre.inst, msgs)
            IN /\ pre.logged => clock <= MaxClock
               /\ msgs' = res.msgs
               /\ hist' = hist \o pre.rows
               /\ copies' = [copies EXCEPT ![k] = pre.inst]
               /\ clock' = IF pre.logged THEN clock + 1 ELSE clock
               /\ stored' = StoredAfter(msgs, res.msgs)
               /\ last' = Op(IF value THEN "mark_as_read" ELSE "mark_as_unread",
                             inst.pk, k, IF res.outcome = "error" THEN 3 ELSE 1)
    /\ UNCHANGED <<tx, cache, users, notifs, pc, nextId>>

mark_as_read(k) == MarkRead(k, TRUE)

mark_as_unread(k) == MarkRead(k, FALSE)

\* message = Message.objects.get(pk=m); message.mark_as_read() (value = TRUE,
\* as the view mark_message_read does for the receiver) or
\* message.mark_as_unread() (value = FALSE), on the row as just loaded.
MarkFresh(m, value) ==
    /\ m \in DOMAIN msgs
    /\ IF msgs[m].read = value
       THEN /\ last' = Op(IF value THEN "mark_as_read" ELSE "mark_as_unread",
                          m, None, 0)
            /\ UNCHANGED <<msgs, hist, clock, stored>>
       ELSE LET inst == [Instance(m, msgs[m]) EXCEPT !.read = value]
                pre == PreSave(inst, msgs, clock)
                res == SaveReadOnly(pre.inst, msgs)
            IN /\ msgs' = res.msgs
               /\ hist' = hist \o pre.rows
               /\ clock' = IF pre.logged THEN clock + 1 ELSE clock
               /\ stored' = StoredAfter(msgs, res.msgs)
               /\ last' = Op(IF value THEN "mark_as_read" ELSE "mark_as_unread",
                             m, None, 1)
    /\ UNCHANGED <<tx, cache, users, notifs, copies, pc, nextId>>

\* Mutant: every unread message is marked, whoever received it.
mark_all_read_for_user_everyone(u) ==
    LET hit == {i \in DOMAIN msgs : ~msgs[i].read}
    IN /\ u \in users
       /\ msgs' = [i \in DOMAIN msgs |->
                     IF i \in hit THEN [msgs[i] EXCEPT !.read = TRUE] ELSE msgs[i]]
       /\ last' = Op("mark_all_read", u, None, Cardinality(hit))
       /\ UNCHANGED <<tx, cache, users, hist, notifs, copies, pc, nextId,
                      clock, stored>>

\* Message.unread.mark_all_read_for_user(u): one UPDATE, no signals.
mark_all_read_for_user(u) ==
    LET hit == {i \in DOMAIN msgs : msgs[i].receiver = u /\ ~msgs[i].read}
    IN /\ u \in users
       /\ msgs' = [i \in DOMAIN msgs |->
                     IF i \in hit THEN [msgs[i] EXCEPT !.read = TRUE] ELSE msgs[i]]
       /\ last' = Op("mark_all_read", u, None, Cardinality(hit))
       /\ UNCHANGED <<tx, cache, users, hist, notifs, copies, pc, nextId, clock, stored>>

\* The change form of MessageAdmin (admin.py) for message m, submitted with
\* sender s, receiver r, content c and parent_message p: the form loads the
\* row, accepts any existing user and any existing message (or none) in its
\* foreign key fields, and saves the instance.  edited and last_edited_at
\* are read-only in the form; the read box is submitted as loaded.
AdminChange(m, s, r, c, p) ==
    /\ m \in DOMAIN msgs
    /\ s \in users
    /\ r \in users
    /\ p \in DOMAIN msgs \cup {None}
    /\ LET sv == FullSave([Instance(m, msgs[m]) EXCEPT
                            !.sender = s, !.receiver = r,
                            !.content = c, !.parent_message = p])
       IN /\ sv.clock > clock => clock <= MaxClock
          /\ msgs' = sv.msgs
          /\ hist' = sv.hist
          /\ notifs' = sv.notifs
          /\ clock' = sv.clock
          /\ stored' = StoredAfter(msgs, sv.msgs)
          /\ last' = Op("admin_change", m, None, sv.ret)
    /\ UNCHANGED <<tx, cache, users, copies, pc, nextId>>

\* Message.objects.get(pk=m).delete()
DeleteMessage(m) ==
    /\ m \in DOMAIN msgs
    /\ LET db == DeleteMessages(Db, {m})
       IN /\ msgs' = db.msgs
          /\ hist' = db.hist
          /\ notifs' = db.notifs
          /\ stored' = Restrict(stored, DOMAIN db.msgs)
    /\ last' = Deleted("delete_message", m, msgs, msgs')
    /\ UNCHANGED <<tx, cache, users, copies, pc, nextId, clock>>

\* user.delete() for user u (views.delete_user after the confirmation).
DeleteUser(u) ==
    /\ u \in users
    /\ LET db == UserDelete(Db, u)
       IN /\ users' = db.users
          /\ msgs' = db.msgs
          /\ hist' = db.hist
          /\ notifs' = db.notifs
          /\ stored' = Restrict(stored, DOMAIN db.msgs)
    /\ last' = Deleted("delete_user", u, msgs, msgs')
    /\ UNCHANGED <<tx, cache, copies, pc, nextId, clock>>

\* create_reply(request, parent_message_id) by the logged-in user u, with the
\* request's method and its POST field 'content'.
create_reply(u, method, parent_message_id, raw) ==
    /\ u \in users
    /\ LET v == create_reply_view(u, method, parent_message_id, raw, msgs)
           op == IF method = "POST" THEN "create_reply" ELSE "create_reply_get"
       IN IF v.create = <<>>
          THEN /\ last' = Op(op, parent_message_id, None, v.status)
               /\ UNCHANGED <<msgs, hist, notifs, nextId, clock, stored>>
          ELSE LET a == v.create[1]
                   sv == FullSave(Instance(nextId,
                             Message(a.sender, a.receiver, a.content,
                                     a.parent_message, clock)))
               IN /\ sv.ret = 2
                  /\ msgs' = sv.msgs
                  /\ hist' = sv.hist
                  /\ notifs' = sv.notifs
                  /\ nextId' = nextId + 1
                  /\ clock' = sv.clock
                  /\ stored' = StoredAfter(msgs, sv.msgs)
                  /\ last' = Op(op, parent_message_id, None, v.status)
    /\ UNCHANGED <<tx, cache, users, copies, pc>>

\* delete_user(request) by the logged-in user u with the POST field
\* 'confirmation'.
delete_user(u, confirmation) ==
    /\ u \in users
    /\ IF delete_user_view(confirmation).delete
       THEN DeleteUser(u)
       ELSE /\ last' = Op("delete_user_refused", u, None, 302)
            /\ UNCHANGED <<users, msgs, hist, notifs, stored,
                           tx, cache, copies, pc, nextId, clock>>

\* -------------------------------------------------------- specifications
\* Users are only ever compared with each other, so every behaviour is a
\* renaming of one whose first message is sent by user 1 to user 1 or 2.
Canonical(s, r) == nextId = 1 => (s = 1 /\ r <= 2)

\* Spec: the store under whole operations, each on a freshly loaded instance.
Next ==
    \/ \E s \in Users, r \in Users, c \in NewContents, p \in MsgIds \cup {None} :
          nextId <= MaxMsgs /\ clock <= MaxClock /\ Canonical(s, r)
          /\ CreateMessage(s, r, c, p)
    \/ \E m \in MsgIds, c \in Contents : EditMessage(m, c)
    \/ \E m \in MsgIds : DeleteMessage(m)
    \/ \E u \in Users : DeleteUser(u)

Spec == Init /\ [][Next]_vars

\* SpecEdit: callers that hold instances across operations of other callers
\* (an instance may be stale when it is saved).
EditIds == 1..EditMsgs

NextEdit ==
    \/ \E s \in Users, r \in Users, c \in NewContents :
          nextId <= EditMsgs /\ clock <= MaxClock /\ Canonical(s, r)
          /\ CreateMessage(s, r, c, None)
    \/ \E k \in Copies, m \in EditIds : Load(k, m)
    \/ \E k \in Copies, c \in Contents : Save(k, c)
    \/ \E k \in Copies : mark_as_read(k)
    \/ \E k \in Copies : mark_as_unread(k)
    \/ \E u \in Users : mark_all_read_for_user(u)
    \/ \E m \in EditIds : DeleteMessage(m)

SpecEdit == Init /\ [][NextEdit]_vars

\* SpecSaves: creations, loads, saves and deletes only (no read-state saves).
NextSaves ==
    \/ \E s \in Users, r \in Users, c \in NewContents :
          nextId <= EditMsgs /\ clock <= MaxClock /\ Canonical(s, r)
          /\ CreateMessage(s, r, c, None)
    \/ \E k \in Copies, m \in EditIds : Load(k, m)
    \/ \E k \in Copies, c \in Contents : Save(k, c)
    \/ \E m \in EditIds : DeleteMessage(m)

SpecSaves == Init /\ [][NextSaves]_vars

\* SpecConc: as SpecSaves, with each save in its two steps, so that the saves
\* of two callers interleave.
NextConc ==
    \/ \E s \in Users, r \in Users, c \in NewContents :
          nextId <= EditMsgs /\ clock <= MaxClock /\ Canonical(s, r)
          /\ CreateMessage(s, r, c, None)
    \/ \E k \in Copies, m \in EditIds : Load(k, m)
    \/ \E k \in Copies, c \in Contents : SavePre(k, c)
    \/ \E k \in Copies : SaveWrite(k)
    \/ \E m \in EditIds : DeleteMessage(m)

SpecConc == Init /\ [][NextConc]_vars

\* SpecAdmin: the store when messages are also changed through the admin
\* change form, which can reassign the sender and the parent of a message.
AdminIds == 1..AdminMsgs

NextAdmin ==
    \/ \E s \in Users, r \in Users, c \in NewContents, p \in AdminIds \cup {None} :
          nextId <= AdminMsgs /\ clock <= MaxClock /\ Canonical(s, r)
          /\ CreateMessage(s, r, c, p)
    \/ \E m \in AdminIds, s \in Users, r \in Users, c \in Contents,
             p \in AdminIds \cup {None} : AdminChange(m, s, r, c, p)
    \/ \E u \in Users : DeleteUser(u)

SpecAdmin == Init /\ [][NextAdmin]_vars

\* SpecThread: threads as creations and deletions build them, deep enough for
\* a reply chain of ThreadMsgs messages.  The senders and receivers are those
\* of the conversations of tests.py (A -> B, B -> A, C -> A).
ThreadIds == 1..ThreadMsgs

ThreadPairs == {<<1, 2>>, <<2, 1>>, <<3, 1>>}

NextThread ==
    \/ \E sr \in ThreadPairs, c \in NewContents, p \in ThreadIds \cup {None} :
          nextId <= ThreadMsgs /\ CreateMessage(sr[1], sr[2], c, p)
    \/ \E m \in ThreadIds : DeleteMessage(m)

SpecThread == Init /\ [][NextThread]_vars

\* SpecFail: creations in their steps, by callers that run concurrently, with
\* notification writes that may fail.
NextFail ==
    \/ \E k \in Copies, s \in Users, r \in Users, c \in NewContents,
             p \in MsgIds \cup {None} :
          nextId <= MaxMsgs /\ Canonical(s, r) /\ CreateInsert(k, s, r, c, p)
    \/ \E k \in Copies : NotifyWrite(k)
    \/ \E k \in Copies : NotifyFail(k)

SpecFail == Init /\ [][NextFail]_vars

\* SpecAtomic: as SpecConc, with writes that may fail.
NextAtomic ==
    \/ \E s \in Users, r \in Users, c \in NewContents :
          nextId <= EditMsgs /\ clock <= MaxClock /\ Canonical(s, r)
          /\ CreateMessage(s, r, c, None)
    \/ \E k \in Copies, m \in EditIds : Load(k, m)
    \/ \E k \in Copies, c \in Contents : SavePre(k, c)
    \/ \E k \in Copies : SaveWrite(k)
    \/ \E k \in Copies : SaveFail(k)
    \/ \E m \in EditIds : DeleteMessage(m)

SpecAtomic == Init /\ [][NextAtomic]_vars

\* SpecDelete: deletes in their steps, between whole creations and edits.
DeleteIds == 1..DeleteMsgs

NextDelete ==
    \/ \E s \in Users, r \in Users, c \in NewContents, p \in DeleteIds \cup {None} :
          nextId <= DeleteMsgs /\ clock <= MaxClock /\ Canonical(s, r)
          /\ NoWriter /\ CreateMessage(s, r, c, p)
    \/ \E m \in DeleteIds, c \in Contents : NoWriter /\ EditMessage(m, c)
    \/ \E k \in Copies, m \in DeleteIds : DeleteBegin(k, "delete_message", m)
    \/ \E k \in Copies, u \in Users : DeleteBegin(k, "delete_user", u)
    \/ \E k \in Copies : DeleteStatement(k)
    \/ \E k \in Copies : DeleteCommit(k)
    \/ \E k \in Copies : DeleteFail(k)

SpecDelete == Init /\ [][NextDelete]_vars

\* SpecCache: creations, edits and deletes, and the cached views.
NextCache ==
    \/ \E s \in Users, r \in Users, c \in NewContents :
          nextId <= EditMsgs /\ clock <= MaxClock /\ Canonical(s, r)
          /\ CreateMessage(s, r, c, None)
    \/ \E m \in EditIds, c \in Contents : EditMessage(m, c)
    \/ \E m \in EditIds : ViewThread(m)
    \/ \E u \in Users : ViewAll(u)
    \/ CacheExpire
    \/ \E m \in EditIds : DeleteMessage(m)

SpecCache == Init /\ [][NextCache]_vars

\* SpecRead: several messages and their read flags.
NextRead ==
    \/ \E s \in Users, r \in Users, c \in NewContents, p \in MsgIds \cup {None} :
          nextId <= MaxMsgs /\ clock <= MaxClock /\ Canonical(s, r)
          /\ CreateMessage(s, r, c, p)
    \/ \E m \in MsgIds, value \in BOOLEAN : MarkFresh(m, value)
    \/ \E u \in Users : mark_all_read_for_user(u)

SpecRead == Init /\ [][NextRead]_vars


\* SpecReply: parentless messages, replies posted through create_reply with
\* any method, any parent id and any text of the form, and deletions.
Methods == {"GET", "POST"}

Chars == {" ", "a"}

RawContents == UNION {[1..n -> Chars] : n \in 0..MaxRaw}

NextReply ==
    \/ \E s, r \in Users :
          nextId <= MaxMsgs /\ CreateMessage(s, r, <<"a">>, None)
    \/ \E u \in Users, method \in Methods, p \in MsgIds, raw \in RawContents :
          /\ p \in DOMAIN msgs => nextId <= MaxMsgs
          /\ create_reply(u, method, p, raw)
    \/ \E m \in MsgIds : DeleteMessage(m)

SpecReply == Init /\ [][NextReply]_vars


\* SpecConfirm: messages, replies and edits of the users, and requests to
\* delete_user with the confirmations a form can post.
Confirmations ==
    {<<>>, Delete,
     <<"D", "E", "L", "E", "T", "E">>,
     <<"D", "e", "l", "e", "t", "e">>,
     <<"d", "e", "l", "e", "t">>,
     <<" ", "d", "e", "l", "e", "t", "e">>,
     <<"w", "r", "o", "n", "g">>}

NextConfirm ==
    \/ \E s, r \in Users, c \in NewContents, p \in DeleteIds \cup {None} :
          nextId <= DeleteMsgs /\ clock <= MaxClock
          /\ CreateMessage(s, r, c, p)
    \/ \E m \in DeleteIds, c \in Contents : EditMessage(m, c)
    \/ \E u \in Users, confirmation \in Confirmations :
          delete_user(u, confirmation)

SpecConfirm == Init /\ [][NextConfirm]_vars

\* ---------------------------------------------------------------- claims
\* The MessageHistory rows of message m, oldest first, and their old_content.
HistoryOf(m) ==
    LET of(h) == h.message = m IN SelectSeq(hist, of)

OldContents(m) ==
    LET h == HistoryOf(m) IN [i \in DOMAIN h |-> h[i].old_content]

HasHistory(m) == \E i \in DOMAIN hist : hist[i].message = m

Occurrences(s, x) == Cardinality({i \in DOMAIN s : s[i] = x})

\* i is a or a reply below a, by i's own chain of parents.
RECURSIVE Descends(_, _, _)
Descends(i, a, rows) ==
    \/ i = a
    \/ /\ rows[i].parent_message \in DOMAIN rows
       /\ Descends(rows[i].parent_message, a, rows)

\* The rows a step appended to a table kept in creation order.
Appended(old, new) == SubSeq(new, Len(old) + 1, Len(new))

KeepsPrefix(old, new) ==
    Len(new) >= Len(old) /\ SubSeq(new, 1, Len(old)) = old

\* The step is a full save by caller k of the instance of an existing message.
SavedExisting(k) ==
    /\ last'.op = "save"
    /\ last'.k = k
    /\ copies[k].pk \in DOMAIN msgs

\* C1: a full save of an existing message with a content different from the
\* stored one adds exactly one MessageHistory row, for that message, whose
\* old_content is the content stored just before; the stored row then has
\* edited = TRUE, a last_edited_at and the new content.
C1_SaveLogsEdit ==
    [][\A k \in Copies :
        (SavedExisting(k) /\ copies'[k].content # msgs[copies[k].pk].content)
        => LET m == copies[k].pk
           IN /\ Len(hist') = Len(hist) + 1
              /\ KeepsPrefix(hist, hist')
              /\ hist'[Len(hist')].message = m
              /\ hist'[Len(hist')].old_content = msgs[m].content
              /\ m \in DOMAIN msgs'
              /\ msgs'[m].edited
              /\ msgs'[m].last_edited_at # None
              /\ msgs'[m].content = copies'[k].content]_vars

C1_Witness ==
    /\ last.op = "save"
    /\ last.ret = 1
    /\ last.id \in DOMAIN msgs
    /\ msgs[last.id].edited
    /\ hist # <<>>
    /\ hist[Len(hist)].message = last.id
    /\ hist[Len(hist)].old_content # msgs[last.id].content

\* C2: in every state, a message is edited iff it has a MessageHistory row.
C2_EditedIffHistory ==
    \A m \in DOMAIN msgs : msgs[m].edited <=> HasHistory(m)

\* C3: creating a message without a parent adds exactly one Notification: for
\* the receiver, of type 'message', about the new message, unread.
C3_RootNotification ==
    [][(nextId' = nextId + 1 /\ msgs'[nextId].parent_message = None)
        => LET new == Appended(notifs, notifs')
           IN /\ KeepsPrefix(notifs, notifs')
              /\ Len(new) = 1
              /\ new[1].user = msgs'[nextId].receiver
              /\ new[1].notification_type = "message"
              /\ new[1].message = nextId
              /\ new[1].is_read = FALSE]_vars

C3_Witness ==
    /\ last.op = "create"
    /\ nextId = 3
    /\ DOMAIN msgs = {1, 2}
    /\ \A m \in DOMAIN msgs : msgs[m].parent_message = None
    /\ Len(notifs) = 2
    /\ \A i \in DOMAIN notifs :
          notifs[i].notification_type = "message"
          /\ notifs[i].message = i
          /\ notifs[i].user = msgs[i].receiver

\* C4: creating a reply adds 'reply' Notifications about the new message: one
\* for its receiver, and a second one, for the sender of the parent, exactly
\* when that sender is neither the reply's sender nor its receiver.
C4_ReplyNotifications ==
    [][(nextId' = nextId + 1 /\ msgs'[nextId].parent_message # None)
        => LET new == Appended(notifs, notifs')
               reply == msgs'[nextId]
               original_sender == msgs[reply.parent_message].sender
               third == original_sender \notin {reply.sender, reply.receiver}
           IN /\ KeepsPrefix(notifs, notifs')
              /\ \A i \in DOMAIN new :
                    new[i].notification_type = "reply" /\ new[i].message = nextId
              /\ Cardinality({i \in DOMAIN new : new[i].user = reply.receiver}) = 1
              /\ Len(new) = IF third THEN 2 ELSE 1
              /\ third => \E i \in DOMAIN new : new[i].user = original_sender]_vars

C4_Witness ==
    /\ last.op = "create"
    /\ last.id \in DOMAIN msgs
    /\ msgs[last.id].parent_message \in DOMAIN msgs
    /\ msgs[msgs[last.id].parent_message].sender
          \notin {msgs[last.id].sender, msgs[last.id].receiver}
    /\ Cardinality({i \in DOMAIN notifs : notifs[i].message = last.id}) = 2

\* C5: after any sequence of content-changing saves of a message, taking its
\* stored content through c0, c1, ..., ck, its MessageHistory rows hold, oldest
\* first, exactly c0, ..., c(k-1), and the stored content is ck.
C5_HistoryChain ==
    \A m \in DOMAIN msgs :
        /\ OldContents(m) = Front(stored[m])
        /\ msgs[m].content = stored[m][Len(stored[m])]

C5_Witness ==
    \E m \in DOMAIN msgs :
        /\ Len(stored[m]) = 4
        /\ Len(HistoryOf(m)) = 3
        /\ last.op = "save"

\* C6: a full save of an existing message with the content that is stored
\* adds no MessageHistory row and leaves the stored edited and last_edited_at
\* as they were.
C6_IdenticalSaveNoOp ==
    [][\A k \in Copies :
        (SavedExisting(k) /\ copies'[k].content = msgs[copies[k].pk].content)
        => LET m == copies[k].pk
           IN /\ hist' = hist
              /\ m \in DOMAIN msgs'
              /\ msgs'[m].edited = msgs[m].edited
              /\ msgs'[m].last_edited_at = msgs[m].last_edited_at]_vars

\* C7: once the stored edited flag of a message is TRUE, no step makes it FALSE
\* while the message exists.
C7_EditedNeverReverts ==
    [][\A m \in DOMAIN msgs \cap DOMAIN msgs' :
        msgs[m].edited => msgs'[m].edited]_vars

\* C8: when the saves of concurrent callers have all completed, the
\* MessageHistory rows of a message hold each content that a write overwrote
\* exactly as often as it was overwritten: none missing, none twice.
C8_ConcurrentEditsLogged ==
    (\A k \in Copies : pc[k] = "idle")
    => \A m \in DOMAIN msgs : \A x \in Contents :
          Occurrences(OldContents(m), x) = Occurrences(Front(stored[m]), x)

\* C9: deleting message m removes m and every reply below it, at any depth;
\* afterwards no Message, MessageHistory or Notification row refers to a
\* message that does not exist.
C9_DeleteCascades ==
    [][last'.op = "delete_message"
        => /\ \A i \in DOMAIN msgs :
                Descends(i, last'.id, msgs) => i \notin DOMAIN msgs'
           /\ \A i \in DOMAIN msgs' :
                msgs'[i].parent_message # None
                => msgs'[i].parent_message \in DOMAIN msgs'
           /\ \A j \in DOMAIN hist' : hist'[j].message \in DOMAIN msgs'
           /\ \A j \in DOMAIN notifs' :
                notifs'[j].message # None
                => notifs'[j].message \in DOMAIN msgs']_vars

C9_Witness ==
    /\ last.op = "delete_message"
    /\ last.depth = 2
    /\ last.ret = 3
    /\ nextId = 4
    /\ clock > nextId
    /\ msgs = <<>> /\ hist = <<>> /\ notifs = <<>>

\* C10: after deleting user u there is no message sent or received by u, no
\* reply below such a message, no MessageHistory row of any of them and no
\* Notification for u.
C10_UserDeleteCascades ==
    [][last'.op = "delete_user"
        => LET u == last'.id
               owned == {a \in DOMAIN msgs :
                           msgs[a].sender = u \/ msgs[a].receiver = u}
               doomed == {i \in DOMAIN msgs :
                            \E a \in owned : Descends(i, a, msgs)}
           IN /\ \A i \in DOMAIN msgs' :
                    msgs'[i].sender # u /\ msgs'[i].receiver # u
              /\ doomed \cap DOMAIN msgs' = {}
              /\ \A j \in DOMAIN hist' : hist'[j].message \notin doomed
              /\ \A j \in DOMAIN notifs' : notifs'[j].user # u]_vars

C10_Witness ==
    /\ last.op = "delete_user"
    /\ last.depth >= 1
    /\ last.ret >= 2
    /\ clock > nextId
    /\ msgs # <<>>
    /\ \A i \in DOMAIN msgs :
          msgs[i].sender # last.id /\ msgs[i].receiver # last.id

\* C11: deleting user u removes no other user and touches no message that u
\* neither sent nor received and that is not below such a message: it still
\* exists with the same content, edited flag, read flag, parent and history.
C11_UserDeleteFrame ==
    [][last'.op = "delete_user"
        => LET u == last'.id
               owned == {a \in DOMAIN msgs :
                           msgs[a].sender = u \/ msgs[a].receiver = u}
               others == {i \in DOMAIN msgs :
                            \A a \in owned : ~Descends(i, a, msgs)}
           IN /\ users' = users \ {u}
              /\ \A i \in others :
                    /\ i \in DOMAIN msgs'
                    /\ msgs'[i] = msgs[i]
                    /\ HistoryOf(i)' = HistoryOf(i)]_vars

C11_Witness ==
    /\ last.op = "delete_user"
    /\ last.ret >= 1
    /\ \E i \in DOMAIN msgs : msgs[i].edited /\ HasHistory(i)

ThreadOf(m) ==
    {j \in DOMAIN msgs :
        \E a \in DOMAIN msgs : /\ msgs[a].parent_message = None
                                /\ Descends(m, a, msgs)
                                /\ Descends(j, a, msgs)}

\* The elements of a sequence, and whether it holds none twice.
Range(s) == {s[i] : i \in DOMAIN s}

NoRepeats(s) == Cardinality(Range(s)) = Len(s)

\* A sequence of messages runs from the oldest to the newest.
OldestFirst(s) ==
    \A i \in DOMAIN s : \A j \in DOMAIN s :
        i < j => msgs[s[i]].timestamp < msgs[s[j]].timestamp

\* C13: called on any message of a thread, of any depth, get_thread_messages
\* returns the messages of that thread, all of them and each once, oldest
\* first.
C13_ThreadMessagesComplete ==
    \A m \in DOMAIN msgs :
        LET thread == get_thread_messages(m, msgs)
        IN /\ Range(thread) = ThreadOf(m)
           /\ NoRepeats(thread)
           /\ OldestFirst(thread)

\* C14: get_conversation_participants returns exactly the users that send or
\* receive a message of the thread, whatever its depth.
C14_ParticipantsComplete ==
    \A m \in DOMAIN msgs :
        get_conversation_participants(m, msgs)
          = {msgs[j].sender : j \in ThreadOf(m)}
            \cup {msgs[j].receiver : j \in ThreadOf(m)}

\* C15: in every state of the store, get_thread_root returns for every
\* message: with the root, or by rejecting a parent chain that holds a cycle.
C15_RootTerminates ==
    \A m \in DOMAIN msgs : get_thread_root(m, msgs).returns

\* The replies below m at any depth.
Descendants(m) == {j \in DOMAIN msgs : j # m /\ Descends(j, m, msgs)}

\* C16: get_total_reply_count(m) is the number of replies below m at any
\* depth, which is the sum of 1 + get_total_reply_count(r) over the direct
\* replies r of m; it is 0 for a message without replies.
C16_TotalReplyCount ==
    \A m \in DOMAIN msgs :
        /\ get_total_reply_count(m, msgs) = Cardinality(Descendants(m))
        /\ get_total_reply_count(m, msgs)
             = Cardinality(Replies(m, msgs))
               + TotalOver(OrderByTimestamp(Replies(m, msgs), msgs), msgs)
        /\ Replies(m, msgs) = {} => get_total_reply_count(m, msgs) = 0

C16_Witness ==
    \E m \in DOMAIN msgs :
        /\ get_total_reply_count(m, msgs) = 4
        /\ get_reply_count(m, msgs) = 2
        /\ \E j \in DOMAIN msgs : Ancestor(j, 3, msgs) = m

\* The nodes of a conversation tree as <<message, depth>> pairs, in the order
\* of a walk of the tree.
RECURSIVE TreeNodes(_, _), ForestNodes(_, _)
TreeNodes(tree, depth) ==
    <<<<tree.message, depth>>>> \o ForestNodes(tree.replies, depth + 1)

ForestNodes(trees, depth) ==
    IF trees = <<>> THEN <<>>
    ELSE TreeNodes(Head(trees), depth) \o ForestNodes(Tail(trees), depth)

\* Every node of the tree lists exactly the direct replies of its message,
\* each once, oldest first.
RECURSIVE TreeChildrenOk(_)
TreeChildrenOk(tree) ==
    LET children == [i \in DOMAIN tree.replies |-> tree.replies[i].message]
    IN /\ Range(children) = {j \in DOMAIN msgs :
                                msgs[j].parent_message = tree.message}
       /\ NoRepeats(children)
       /\ OldestFirst(children)
       /\ \A i \in DOMAIN tree.replies : TreeChildrenOk(tree.replies[i])

\* C17: the tree of get_conversation_tree(root) has, at the node of each
\* message, exactly its direct replies oldest first; every message of the
\* thread is in the tree exactly once, at the depth of its parent chain.
C17_ConversationTree ==
    \A root \in DOMAIN msgs :
        msgs[root].parent_message = None
        => LET tree == get_conversation_tree(root, msgs)
               nodes == TreeNodes(tree, 0)
           IN /\ tree.message = root
              /\ TreeChildrenOk(tree)
              /\ NoRepeats(nodes)
              /\ Range(nodes) = {<<j, Level(j, ThreadOf(root), msgs)>> :
                                   j \in ThreadOf(root)}

C17_Witness ==
    \E root \in DOMAIN msgs :
        /\ msgs[root].parent_message = None
        /\ LET tree == get_conversation_tree(root, msgs)
           IN /\ Len(tree.replies) = 2
              /\ Len(tree.replies[1].replies) = 1
              /\ Len(tree.replies[1].replies[1].replies) = 1
              /\ tree.replies[2].message > tree.replies[1].replies[1].message

\* C18: saving an existing message, with or without a content change,
\* mark_as_read, mark_as_unread and mark_all_read_for_user leave the
\* Notification rows as they are.
C18_OnlyCreationNotifies ==
    [][(\/ \E k \in Copies : SavedExisting(k)
        \/ last'.op \in {"mark_as_read", "mark_as_unread", "mark_all_read"})
        => notifs' = notifs]_vars

C18_Witness ==
    /\ last.op \in {"mark_as_read", "mark_all_read"}
    /\ last.ret = 1
    /\ last.id \in DOMAIN msgs
    /\ msgs[1].edited /\ msgs[1].read
    /\ Len(hist) = 2
    /\ Len(notifs) = 1

\* C19: in every state between operations, each message has a Notification
\* about it for its receiver.
C19_MessageHasNotification ==
    \A m \in DOMAIN msgs :
        \E j \in DOMAIN notifs :
            notifs[j].message = m /\ notifs[j].user = msgs[m].receiver

C19_Witness ==
    /\ last.op = "delete_user"
    /\ last.ret >= 1
    /\ Cardinality(DOMAIN msgs) = 2
    /\ \E m \in DOMAIN msgs :
          /\ msgs[m].parent_message \in DOMAIN msgs
          /\ msgs[msgs[m].parent_message].sender
                \notin {msgs[m].sender, msgs[m].receiver}
    /\ \E m \in DOMAIN msgs : msgs[m].edited

\* C20: when no creation is under way, each message has the notifications
\* its creation owes: one for its receiver and, for a reply whose parent was
\* sent by a third user, one for that user.  A creation whose notification
\* write failed leaves no message behind.
C20_CreationAtomic ==
    (\A k \in Copies : pc[k] = "idle")
    => \A m \in DOMAIN msgs :
          /\ \E j \in DOMAIN notifs :
                notifs[j].message = m /\ notifs[j].user = msgs[m].receiver
          /\ msgs[m].parent_message # None
             => LET original_sender == msgs[msgs[m].parent_message].sender
                IN original_sender \notin {msgs[m].sender, msgs[m].receiver}
                   => \E j \in DOMAIN notifs :
                         notifs[j].message = m /\ notifs[j].user = original_sender

\* C21: in every state of the store, also while a save is under way and
\* after a save whose write failed, a message has one MessageHistory row per
\* change of its stored content, and a message with a history row is edited:
\* the history row of an edit and its new content are there together or not
\* at all.
C21_EditAtomic ==
    \A m \in DOMAIN msgs :
        /\ Len(HistoryOf(m)) = Len(stored[m]) - 1
        /\ HasHistory(m) => msgs[m].edited

\* C22: a delete of a message or of a user changes the store in one step,
\* its commit, which applies the whole cascade (the record, the replies below
\* it, their history rows and notifications, the editor references nulled);
\* the steps before it, and a delete that fails, leave the store unchanged.
C22_DeleteAtomic ==
    [][LET after == [users |-> users', msgs |-> msgs',
                     hist |-> hist', notifs |-> notifs']
       IN /\ last'.op \in {"begin", "statement", "delete_failed"} => after = Db
          /\ last'.op = "delete_message"
             => after = DeleteMessages(Db, {last'.id})
          /\ last'.op = "delete_user" => after = UserDelete(Db, last'.id)]_vars

C22_Witness ==
    /\ last.op = "delete_user"
    /\ last.k \in Copies
    /\ last.ret = 1
    /\ \E m \in DOMAIN msgs : msgs[m].edited /\ HasHistory(m)
    /\ Len(notifs) = 1

\* C23: a page that conversation_thread or all_conversations serves shows
\* every message with the content the store holds for it when the page is
\* served: after an edit has returned, never the content from before.
C23_NoStaleRead ==
    [][(last'.op \in {"conversation_thread", "all_conversations"}
        /\ last'.ret.status = 200)
        => \A i \in DOMAIN last'.ret.content \cap DOMAIN msgs :
              last'.ret.content[i] = msgs[i].content]_vars

\* The unread messages that u received.
UnreadOf(u) == {i \in DOMAIN msgs : msgs[i].receiver = u /\ ~msgs[i].read}

\* A sequence of messages runs from the newest to the oldest.
NewestFirst(s) ==
    \A i \in DOMAIN s : \A j \in DOMAIN s :
        i < j => msgs[s[i]].timestamp > msgs[s[j]].timestamp

\* C24: unread_for_user(u) returns exactly the messages received by u that
\* are not read, each once, newest first; unread_count_for_user(u) is their
\* number; a message that u sent to another user is not among them.
C24_UnreadForUser ==
    \A u \in Users :
        LET unread == unread_for_user(u, msgs)
        IN /\ Range(unread) = UnreadOf(u)
           /\ NoRepeats(unread)
           /\ NewestFirst(unread)
           /\ unread_count_for_user(u, msgs) = Len(unread)
           /\ \A i \in Range(unread) : msgs[i].receiver = u

C24_Witness ==
    /\ Len(unread_for_user(2, msgs)) = 2
    /\ \E i \in DOMAIN msgs : msgs[i].receiver = 2 /\ msgs[i].read
    /\ \E i \in DOMAIN msgs : msgs[i].sender = 2 /\ ~msgs[i].read

\* C25: mark_all_read_for_user(u) returns the number of messages that u had
\* received and not read; afterwards u has no unread message, and the read
\* flag of every message received by another user is as before.
C25_MarkAllRead ==
    [][last'.op = "mark_all_read"
        => LET u == last'.id
           IN /\ last'.ret = Cardinality(UnreadOf(u))
              /\ unread_count_for_user(u, msgs') = 0
              /\ DOMAIN msgs' = DOMAIN msgs
              /\ \A i \in DOMAIN msgs :
                    msgs[i].receiver # u => msgs'[i].read = msgs[i].read]_vars

C25_Witness ==
    /\ last.op = "mark_all_read"
    /\ last.ret = 2
    /\ \E i \in DOMAIN msgs : msgs[i].receiver # last.id /\ ~msgs[i].read

\* C26: after mark_as_read on an instance of an existing message the stored
\* read flag is TRUE, after mark_as_unread it is FALSE; applied again on the
\* same instance, the operation succeeds and changes nothing in the store.
C26_ReadToggles ==
    [][\A k \in Copies :
        (/\ last'.op \in {"mark_as_read", "mark_as_unread"}
         /\ last'.k = k
         /\ copies[k].pk \in DOMAIN msgs)
        => LET value == (last'.op = "mark_as_read")
           IN /\ last'.ret # 3
              /\ msgs'[copies[k].pk].read = value
              /\ copies[k].read = value
                 => <<msgs', hist', notifs'>> = <<msgs, hist, notifs>>]_vars

\* C27: unread_by_sender(u, s) is exactly the part of unread_for_user(u) sent
\* by s, and unread_threads_for_user(u) exactly its part without a parent,
\* both in the order of unread_for_user(u).
C27_UnreadFilters ==
    \A u \in Users :
        LET unread == unread_for_user(u, msgs)
            roots(i) == msgs[i].parent_message = None
        IN /\ unread_threads_for_user(u, msgs) = SelectSeq(unread, roots)
           /\ \A r \in Range(unread_threads_for_user(u, msgs)) :
                 msgs[r].receiver = u /\ ~msgs[r].read
                 /\ msgs[r].parent_message = None
           /\ \A s \in Users :
                 LET from(i) == msgs[i].sender = s
                 IN unread_by_sender(u, s, msgs) = SelectSeq(unread, from)

C27_Witness ==
    \E u \in Users :
        /\ Len(unread_for_user(u, msgs)) = 2
        /\ Len(unread_threads_for_user(u, msgs)) = 1
        /\ \E s \in Users : Len(unread_by_sender(u, s, msgs)) = 1
        /\ \E i \in DOMAIN msgs :
              msgs[i].receiver = u /\ msgs[i].read /\ msgs[i].parent_message = None

\* C28: a POST to create_reply whose parent id matches no stored message is
\* answered 404 and creates nothing: messages, history and notifications stay
\* as they were and no id is used.
C28_ReplyNeedsParent ==
    [][(last'.op = "create_reply" /\ last'.id \notin DOMAIN msgs)
       => /\ last'.ret = 404
          /\ UNCHANGED <<msgs, hist, notifs, nextId, users>>]_vars

C28_Witness ==
    /\ last.op = "create_reply"
    /\ last.ret = 404
    /\ last.id < nextId
    /\ \E i \in DOMAIN msgs : msgs[i].parent_message # None
    /\ Len(notifs) > 0

\* C29: every MessageHistory row that a step creates names as edited_by the
\* sender of the message it belongs to, as stored when the step is taken
\* and after it, whichever caller saves.
C29_EditorIsSender ==
    [][\A j \in DOMAIN Appended(hist, hist') :
        LET h == Appended(hist, hist')[j]
        IN /\ h.message \in DOMAIN msgs
           /\ h.edited_by = msgs[h.message].sender
           /\ h.message \in DOMAIN msgs'
           /\ h.edited_by = msgs'[h.message].sender]_vars

C29_Witness ==
    /\ last.op = "save"
    /\ last.ret = 1
    /\ last.k = 2
    /\ Len(hist) = 2
    /\ \A j \in DOMAIN hist :
          /\ hist[j].edited_by = msgs[hist[j].message].sender
          /\ hist[j].edited_by # msgs[hist[j].message].receiver

C31_RootIdempotent ==
    \A m \in DOMAIN msgs :
        LET root == get_thread_root(m, msgs)
        IN /\ root.returns
           /\ root.message \in DOMAIN msgs
           /\ msgs[root.message].parent_message = None
           /\ Descends(m, root.message, msgs)
           /\ get_thread_root(root.message, msgs) = root
           /\ msgs[m].parent_message # None
              => /\ msgs[m].parent_message \in DOMAIN msgs
                 /\ get_thread_root(msgs[m].parent_message, msgs) = root

C31_Witness ==
    \E m \in DOMAIN msgs :
        /\ Ancestor(m, 2, msgs) # None
        /\ get_thread_root(m, msgs).message = Ancestor(m, 2, msgs)
        /\ \E n \in DOMAIN msgs :
              get_thread_root(n, msgs).message \notin {n, Ancestor(m, 2, msgs)}

\* C32: the content of every notification is one of the three templates
\* filled with the sender of the message it announces: "new message" to the
\* receiver of a parentless message, "new reply" to the receiver of a reply,
\* "replied to your message" to the sender of the reply's parent.
C32_NotificationContent ==
    \A j \in DOMAIN notifs :
        LET n == notifs[j]
        IN /\ n.message \in DOMAIN msgs
           /\ LET m == msgs[n.message]
              IN /\ n.content.sender = m.sender
                 /\ IF m.parent_message = None
                    THEN /\ n.user = m.receiver
                         /\ n.content.template
                               = "You have a new message from {sender}"
                    ELSE \/ /\ n.user = m.receiver
                            /\ n.content.template
                                  = "You have a new reply from {sender}"
                         \/ /\ n.user = msgs[m.parent_message].sender
                            /\ n.user # m.receiver
                            /\ n.content.template
                                  = "{sender} replied to your message"

C32_Witness ==
    /\ \E j \in DOMAIN notifs :
          notifs[j].content.template = "You have a new message from {sender}"
    /\ \E j \in DOMAIN notifs :
          notifs[j].content.template = "You have a new reply from {sender}"
    /\ \E j \in DOMAIN notifs :
          notifs[j].content.template = "{sender} replied to your message"

\* C33: a POST to create_reply by user u on a stored parent p with a text
\* that holds a non-blank character creates exactly one message, with sender
\* u, receiver the sender of p and parent p: the reply count of p grows by
\* one and exactly one notification, to the sender of p, is created.  With
\* an empty or all-blank text nothing is created.
C33_ReplyCreated ==
    [][\A u \in Users, p \in MsgIds, raw \in RawContents :
        (p \in DOMAIN msgs /\ create_reply(u, "POST", p, raw))
        => IF \E i \in DOMAIN raw : raw[i] # " "
           THEN /\ nextId \notin DOMAIN msgs
                /\ DOMAIN msgs' = DOMAIN msgs \cup {nextId}
                /\ \A i \in DOMAIN msgs : msgs'[i] = msgs[i]
                /\ msgs'[nextId].sender = u
                /\ msgs'[nextId].receiver = msgs[p].sender
                /\ msgs'[nextId].parent_message = p
                /\ get_reply_count(p, msgs') = get_reply_count(p, msgs) + 1
                /\ Len(notifs') = Len(notifs) + 1
                /\ KeepsPrefix(notifs, notifs')
                /\ notifs'[Len(notifs')].user = msgs[p].sender
                /\ notifs'[Len(notifs')].message = nextId
           ELSE UNCHANGED <<msgs, hist, notifs, nextId>>]_vars

C33_Witness ==
    /\ last.op = "create_reply"
    /\ last.ret = 302
    /\ last.id \in DOMAIN msgs
    /\ msgs[last.id].parent_message # None
    /\ \E i \in DOMAIN msgs :
          /\ i = nextId - 1
          /\ msgs[i].parent_message = last.id
          /\ msgs[i].sender # msgs[i].receiver
          /\ msgs[last.id].receiver # msgs[i].receiver
    /\ Len(notifs) = 3

\* The word "delete" in any mix of upper and lower case.
IsDeleteIgnoringCase(w) ==
    /\ Len(w) = 6
    /\ w[1] \in {"d", "D"} /\ w[2] \in {"e", "E"} /\ w[3] \in {"l", "L"}
    /\ w[4] \in {"e", "E"} /\ w[5] \in {"t", "T"} /\ w[6] \in {"e", "E"}

\* C34: a request to delete_user by user u removes u, every message u sent
\* or received, every notification of u and u as editor of history rows
\* when the posted confirmation is "delete" in any case; with any other
\* confirmation users, messages, history and notifications are unchanged.
C34_DeleteNeedsConfirmation ==
    [][\A u \in Users, confirmation \in Confirmations :
        (u \in users /\ delete_user(u, confirmation))
        => IF IsDeleteIgnoringCase(confirmation)
           THEN /\ users' = users \ {u}
                /\ \A i \in DOMAIN msgs' :
                      /\ i \in DOMAIN msgs
                      /\ msgs'[i].sender # u
                      /\ msgs'[i].receiver # u
                /\ \A j \in DOMAIN notifs' : notifs'[j].user # u
                /\ \A j \in DOMAIN hist' : hist'[j].edited_by # u
           ELSE UNCHANGED <<users, msgs, hist, notifs>>]_vars

C34_Witness ==
    /\ last.op = "delete_user_refused"
    /\ last.id \in users
    /\ users # Users
    /\ \E i \in DOMAIN msgs :
          msgs[i].sender = last.id /\ msgs[i].edited
    /\ Len(hist) > 0
    /\ Len(notifs) > 0

\* C35: for every message m, get_all_replies(m) holds every message below m
\* in the thread, the replies to its replies at any depth included.
C35_AllRepliesRecursive ==
    \A m \in DOMAIN msgs :
        Range(get_all_replies(m, msgs)) = Descendants(m)

\* C36: mark_as_read or mark_as_unread on an instance of a stored message
\* creates no MessageHistory row and no notification and changes no stored
\* message in anything but the read flag of that message, whatever content
\* the instance carries.
C36_ReadFrame ==
    [][\A k \in Copies :
        (/\ last'.op \in {"mark_as_read", "mark_as_unread"}
         /\ last'.k = k
         /\ copies[k].pk \in DOMAIN msgs)
        => LET m == copies[k].pk
           IN /\ hist' = hist
              /\ notifs' = notifs
              /\ DOMAIN msgs' = DOMAIN msgs
              /\ \A i \in DOMAIN msgs \ {m} : msgs'[i] = msgs[i]
              /\ msgs'[m] = [msgs[m] EXCEPT !.read = msgs'[m].read]]_vars

\* C37: a full save of an instance of a stored message, made to edit its
\* content, leaves the stored read flag, sender, receiver and parent of the
\* message as they were: a message marked read since the instance was loaded
\* is still read after the save.
C37_EditKeepsRead ==
    [][\A k \in Copies :
        SavedExisting(k)
        => LET m == copies[k].pk
           IN /\ m \in DOMAIN msgs'
              /\ msgs'[m].read = msgs[m].read
              /\ msgs'[m].sender = msgs[m].sender
              /\ msgs'[m].receiver = msgs[m].receiver
              /\ msgs'[m].parent_message = msgs[m].parent_message]_vars

\* C38: in every state reached by creations, edits and deletions of messages
\* and users, each MessageHistory row belongs to a stored message and its
\* edited_by is not null and is the sender of that message; no deletion of a
\* user leaves a row with a null editor.
C38_EditorIsSenderAlways ==
    \A j \in DOMAIN hist :
        /\ hist[j].message \in DOMAIN msgs
        /\ hist[j].edited_by # None
        /\ hist[j].edited_by \in users
        /\ hist[j].edited_by = msgs[hist[j].message].sender

C38_Witness ==
    /\ last.op = "delete_user"
    /\ last.id \notin users
    /\ last.ret >= 1
    /\ \E j \in DOMAIN hist : hist[j].edited_by \in users

\* C39: in every reachable state the parent of a message, if set, is a
\* stored message created before it; no message is its own ancestor, and
\* every parent chain ends at a parentless message within as many links as
\* there are messages, where get_thread_root returns.
C39_Forest ==
    /\ \A m \in DOMAIN msgs :
          msgs[m].parent_message # None
          => /\ msgs[m].parent_message \in DOMAIN msgs
             /\ msgs[m].parent_message < m
             /\ msgs[msgs[m].parent_message].timestamp < msgs[m].timestamp
    /\ \A m \in DOMAIN msgs :
          /\ \A n \in 1..Cardinality(DOMAIN msgs) : Ancestor(m, n, msgs) # m
          /\ \E n \in 0..(Cardinality(DOMAIN msgs) - 1) :
                /\ Ancestor(m, n, msgs) # None
                /\ msgs[Ancestor(m, n, msgs)].parent_message = None
                /\ get_thread_root(m, msgs)
                      = [returns |-> TRUE, message |-> Ancestor(m, n, msgs)]

C39_Witness ==
    /\ \E m \in DOMAIN msgs : Ancestor(m, 2, msgs) # None
    /\ \E i \in DOMAIN msgs : msgs[i].edited
    /\ last.op = "edit"

\* C40: in every reachable state the sender and the receiver of every
\* message are existing users and its parent, if set, is a stored message;
\* the message of every MessageHistory row is stored; the user of every
\* notification exists and its message, if set, is stored.
C40_ReferentialIntegrity ==
    /\ \A m \in DOMAIN msgs :
          /\ msgs[m].sender \in users
          /\ msgs[m].receiver \in users
          /\ msgs[m].parent_message # None
             => msgs[m].parent_message \in DOMAIN msgs
    /\ \A j \in DOMAIN hist : hist[j].message \in DOMAIN msgs
    /\ \A j \in DOMAIN notifs :
          /\ notifs[j].user \in users
          /\ notifs[j].message # None => notifs[j].message \in DOMAIN msgs

C40_Witness ==
    /\ last.op \in {"delete_user", "delete_message"}
    /\ last.ret >= 1
    /\ users # Users
    /\ \E m \in DOMAIN msgs : msgs[m].parent_message # None
    /\ Len(hist) > 0
    /\ Len(notifs) > 0

====
